---- MODULE Spec2Model ----
(***************************************************************************)
(* The CPU rasterizer of src/src/canvas.rs: the colour types RGB and RGBA  *)
(* with their blend, the Canvas pixel buffer, and the drawing operations   *)
(* (draw_pixel, draw_line, draw_circle, draw_circle_solid, draw_polygon,   *)
(* draw_polygon_solid).  One action per public method; each action records *)
(* the call, its return value, the coordinates it fed to draw_pixel and    *)
(* the buffer it started from.                                             *)
(***************************************************************************)
EXTENDS Integers, Sequences, FiniteSets, TLC

VARIABLES
    width,      \* Canvas.width
    height,     \* Canvas.height
    buffer,     \* Canvas.buffer, row-major; cell i of the Vec is buffer[i + 1]
    ctor,       \* the arguments Canvas::new was called with
    op,         \* the last method called, with its arguments
    ret,        \* what that call returned
    calls,      \* the coordinates that call fed to draw_pixel, in call order
    lines,      \* the draw_line calls that call made, each <<x1, y1, x2, y2>>
    prev,       \* the buffer as it was when that call started
    panicked,   \* the call hit a Rust panic (an out-of-range index)
    steps,      \* number of calls made so far
    pc,         \* where the drawing call in progress stands: the loop it is in
    loc         \* the local variables of that call, its arguments to begin with

vars == <<width, height, buffer, ctor, op, ret, calls, lines, prev, panicked, steps, pc, loc>>

----------------------------------------------------------------------------
(* Bounds of the model. *)

MaxDim == 3       \* Canvas::new(w, h) with w, h in 1..MaxDim
MaxCoord == 3     \* signed coordinates range over -1..MaxCoord
MaxRadius == 2    \* circle radii range over 0..MaxRadius
MaxVerts == 3     \* vertex lists have 0..MaxVerts vertices
MaxPolyCoord == 2 \* vertex coordinates range over 0..MaxPolyCoord
MaxOps == 2       \* calls per behaviour

Dims == 1..MaxDim
Coords == -1..MaxCoord
UCoords == 0..MaxCoord
PolyPoints == (0..MaxPolyCoord) \X (0..MaxPolyCoord)
VertexLists == UNION {[1..n -> PolyPoints] : n \in 0..MaxVerts}

\* Axis-aligned rectangles, listed from the corner of least x and y along the
\* edge of constant x first, and the same rectangles listed the other way round.
Rectangles ==
    UNION {{ <<<<x0, y0>>, <<x0, y1>>, <<x1, y1>>, <<x1, y0>>>>,
             <<<<x0, y0>>, <<x1, y0>>, <<x1, y1>>, <<x0, y1>>>> } :
           <<x0, y0, x1, y1>> \in {q \in (0..MaxPolyCoord) \X (0..MaxPolyCoord) \X
                                         (0..MaxPolyCoord) \X (0..MaxPolyCoord) :
                                     q[1] < q[3] /\ q[2] < q[4]}}

----------------------------------------------------------------------------
(* Colours: RGB (canvas.rs:22-27) and RGBA (canvas.rs:1-7). *)

RGB(r, g, b) == [r |-> r, g |-> g, b |-> b]
RGBA(r, g, b, a) == [r |-> r, g |-> g, b |-> b, a |-> a]

Black == RGB(0, 0, 0)

\* Opaque colours handed to set and fill.
Colors == {RGB(255, 128, 64), RGB(1, 2, 3)}

\* Paints handed to draw_pixel: opaque, translucent, transparent.
Paints == {RGBA(255, 0, 0, 255), RGBA(10, 200, 30, 128), RGBA(0, 0, 255, 0)}

\* Paints handed to the line, circle and polygon methods.
ShapePaints == {RGBA(255, 0, 0, 255), RGBA(10, 200, 30, 128)}

\* RGBA::to_rgb: the colour without its alpha, and the alpha.
to_rgb(c) == <<RGB(c.r, c.g, c.b), c.a>>

\* lerp_channel with the two weights exchanged.
lerp_channel_swapped(s, o, alpha) == (alpha * s + (255 - alpha) * o) \div 255

\* One channel of RGB::lerp with a = alpha / 255.0:
\* ((1.0 - a) * s + a * o) as u8, a cast that truncates toward zero.  For the
\* alphas of Paints (0, 128, 255) the f64 evaluation equals this integer
\* quotient for every pair of channel values.
lerp_channel(s, o, alpha) == ((255 - alpha) * s + alpha * o) \div 255

lerp(self, other, alpha) ==
    RGB(lerp_channel(self.r, other.r, alpha),
        lerp_channel(self.g, other.g, alpha),
        lerp_channel(self.b, other.b, alpha))

\* add_rgba that overwrites with the paint's colour whatever its alpha.
add_rgba_no_alpha(self, other) == to_rgb(other)[1]

add_rgba(self, other) == lerp(self, to_rgb(other)[1], to_rgb(other)[2])

----------------------------------------------------------------------------
(* Option values and the record of a call. *)

None == [tag |-> "None", rgb |-> Black, words |-> <<>>]
Some(c) == [tag |-> "Some", rgb |-> c, words |-> <<>>]
SomeUnit == [tag |-> "Some", rgb |-> Black, words |-> <<>>]
Unit == [tag |-> "Unit", rgb |-> Black, words |-> <<>>]
Words(ws) == [tag |-> "Vec", rgb |-> Black, words |-> ws]

NoPaint == RGBA(0, 0, 0, 0)

Call(name, args, rgb, rgba) ==
    [name |-> name, args |-> args, rgb |-> rgb, rgba |-> rgba,
     verts |-> <<>>, clockwise |-> FALSE]

CallPolygon(name, vertices, clockwise, rgba) ==
    [name |-> name, args |-> <<>>, rgb |-> Black, rgba |-> rgba,
     verts |-> vertices, clockwise |-> clockwise]

----------------------------------------------------------------------------
(* Canvas: the pixel buffer. *)

\* vec![value; n]
vec(value, n) == [i \in 1..n |-> value]

\* Vec::get / Vec::get_mut: the index is checked against the length only.
vec_has(buf, index) == index >= 0 /\ index < Len(buf)

\* Bitwise or of two u32, by bits.
RECURSIVE bit_or(_, _)
bit_or(m, n) ==
    IF m = 0 THEN n
    ELSE IF n = 0 THEN m
    ELSE (IF m % 2 = 1 \/ n % 2 = 1 THEN 1 ELSE 0) + 2 * bit_or(m \div 2, n \div 2)

\* v << k on a value already widened to u32 (v < 256, k <= 16: no bit is lost).
shl(v, k) == v * (2 ^ k)

\* pack with the green channel left unshifted.
pack_green_unshifted(c) == bit_or(bit_or(shl(c.r, 16), c.g), c.b)

\* The closure of Canvas::buffer_u32.
pack(c) == bit_or(bit_or(shl(c.r, 16), shl(c.g, 8)), c.b)

buffer_u32(buf) == [i \in 1..Len(buf) |-> pack(buf[i])]

\* pixel_inside without the test x < width.
pixel_inside_no_width(x, y) == x >= 0 /\ y >= 0 /\ y < height

pixel_inside(x, y) == x >= 0 /\ x < width /\ y >= 0 /\ y < height

\* The index Canvas::get and Canvas::set hand to the Vec.
cell_index(x, y) == y * width + x

get(buf, x, y) ==
    IF vec_has(buf, cell_index(x, y)) THEN Some(buf[cell_index(x, y) + 1]) ELSE None

\* set_buffer indexing the Vec column-major.
set_buffer_transposed(buf, x, y, color) ==
    IF vec_has(buf, x * width + y)
    THEN [buf EXCEPT ![x * width + y + 1] = color]
    ELSE buf

\* Canvas::set: the buffer after the call (unchanged when get_mut gives None).
set_buffer(buf, x, y, color) ==
    IF vec_has(buf, cell_index(x, y))
    THEN [buf EXCEPT ![cell_index(x, y) + 1] = color]
    ELSE buf

set_result(buf, x, y) == IF vec_has(buf, cell_index(x, y)) THEN SomeUnit ELSE None

\* fill_buffer allocating width * width cells.
fill_buffer_square(color) == vec(color, width * width)

fill_buffer(color) == vec(color, width * height)

----------------------------------------------------------------------------
(* Pixel compositor. *)

\* draw_pixel testing x >= 0 and the row only, as Canvas::get and
\* Canvas::set do not test x against the width.
draw_pixel_row_check(buf, x, y, color) ==
    IF ~(x >= 0 /\ y >= 0 /\ y < height) THEN buf
    ELSE IF get(buf, x, y).tag = "None" THEN buf
    ELSE set_buffer(buf, x, y, add_rgba(get(buf, x, y).rgb, color))

\* Canvas::draw_pixel: the buffer after the call.
draw_pixel(buf, x, y, color) ==
    IF ~pixel_inside(x, y) THEN buf
    ELSE IF get(buf, x, y).tag = "None" THEN buf
    ELSE set_buffer(buf, x, y, add_rgba(get(buf, x, y).rgb, color))

draw_pixel_result(buf, x, y) ==
    IF ~pixel_inside(x, y) THEN None
    ELSE IF get(buf, x, y).tag = "None" THEN None
    ELSE set_result(buf, x, y)

\* draw_pixels giving up at the first coordinate outside the canvas, as
\* `self.draw_pixel(..)?;` would.
RECURSIVE draw_pixels_abort(_, _, _)
draw_pixels_abort(buf, pts, color) ==
    IF pts = <<>> THEN buf
    ELSE IF ~pixel_inside(Head(pts)[1], Head(pts)[2]) THEN buf
    ELSE draw_pixels_abort(draw_pixel(buf, Head(pts)[1], Head(pts)[2], color),
                           Tail(pts), color)

\* A run of draw_pixel calls with one paint, in order.
RECURSIVE draw_pixels(_, _, _)
draw_pixels(buf, pts, color) ==
    IF pts = <<>> THEN buf
    ELSE draw_pixels(draw_pixel(buf, Head(pts)[1], Head(pts)[2], color), Tail(pts), color)

----------------------------------------------------------------------------
(* Line rasterizer. *)

abs(n) == IF n < 0 THEN -n ELSE n

\* abs_m_le_1 testing the slope against 2.0.
abs_m_le_2(dx, dy) == dx # 0 /\ dy <= 2 * dx

\* abs_m <= 1.0 with abs_m = dy as f32 / dx as f32: 0/0 is NaN and dy/0 is
\* +inf, neither of which is <= 1.0 (the casts are exact below 2^24).
abs_m_le_1(dx, dy) == dx # 0 /\ dy <= dx

\* line_vertical over the inclusive range 0..=(end_y - start_y).
line_vertical_inclusive(x1, y1, x2, y2) ==
    IF x1 = x2
    THEN LET start_y == IF y1 < y2 THEN y1 ELSE y2
             end_y == IF y1 < y2 THEN y2 ELSE y1
         IN [k \in 1..(end_y - start_y + 1) |-> <<x1, start_y + (k - 1)>>]
    ELSE <<>>

\* The vertical special case of draw_line: for i in 0..(end_y - start_y).
line_vertical(x1, y1, x2, y2) ==
    IF x1 = x2
    THEN LET start_y == IF y1 < y2 THEN y1 ELSE y2
             end_y == IF y1 < y2 THEN y2 ELSE y1
         IN [k \in 1..(end_y - start_y) |-> <<x1, start_y + (k - 1)>>]
    ELSE <<>>

\* line_offsets over the exclusive range 1..n.
RECURSIVE line_offsets_exclusive(_, _, _, _, _, _, _)
line_offsets_exclusive(i, n, p, offset, a, b, step) ==
    IF i >= n THEN <<>>
    ELSE IF p < 0
         THEN <<offset>> \o line_offsets_exclusive(i + 1, n, p + a, offset, a, b, step)
         ELSE <<offset + step>> \o
              line_offsets_exclusive(i + 1, n, p + b, offset + step, a, b, step)

\* The decision loop `for i in 1..=n`: the offset used at each i.
RECURSIVE line_offsets(_, _, _, _, _, _, _)
line_offsets(i, n, p, offset, a, b, step) ==
    IF i > n THEN <<>>
    ELSE IF p < 0
         THEN <<offset>> \o line_offsets(i + 1, n, p + a, offset, a, b, step)
         ELSE <<offset + step>> \o line_offsets(i + 1, n, p + b, offset + step, a, b, step)

\* line_shallow starting at (x1, y1) whichever endpoint lies to the left.
line_shallow_unordered(x1, y1, x2, y2) ==
    LET dx == abs(x2 - x1)
        dy == abs(y2 - y1)
        step == IF y1 < y2 THEN 1 ELSE -1
        a == 2 * dy
        b == a - 2 * dx
        offs == line_offsets(1, x2 - x1, a - dx, 0, a, b, step)
    IN <<<<x1, y1>>>> \o [i \in 1..Len(offs) |-> <<x1 + i, y1 + offs[i]>>]

\* The branch for abs_m <= 1.0: one draw_pixel per x.
line_shallow(x1, y1, x2, y2) ==
    LET dx == abs(x2 - x1)
        dy == abs(y2 - y1)
        start_x == IF x1 < x2 THEN x1 ELSE x2
        start_y == IF x1 < x2 THEN y1 ELSE y2
        end_x == IF x1 < x2 THEN x2 ELSE x1
        end_y == IF x1 < x2 THEN y2 ELSE y1
        step == IF start_y < end_y THEN 1 ELSE -1
        a == 2 * dy
        b == a - 2 * dx
        offs == line_offsets(1, end_x - start_x, a - dx, 0, a, b, step)
    IN <<<<start_x, start_y>>>> \o
       [i \in 1..Len(offs) |-> <<start_x + i, start_y + offs[i]>>]

\* line_steep starting at (x1, y1) whichever endpoint lies higher.
line_steep_unordered(x1, y1, x2, y2) ==
    LET dx == abs(x2 - x1)
        dy == abs(y2 - y1)
        step == IF x1 < x2 THEN 1 ELSE -1
        a == 2 * dx
        b == a - 2 * dy
        offs == line_offsets(1, y2 - y1, a - dy, 0, a, b, step)
    IN <<<<x1, y1>>>> \o [i \in 1..Len(offs) |-> <<x1 + offs[i], y1 + i>>]

\* The other branch: one draw_pixel per y.
line_steep(x1, y1, x2, y2) ==
    LET dx == abs(x2 - x1)
        dy == abs(y2 - y1)
        start_x == IF y1 < y2 THEN x1 ELSE x2
        start_y == IF y1 < y2 THEN y1 ELSE y2
        end_x == IF y1 < y2 THEN x2 ELSE x1
        end_y == IF y1 < y2 THEN y2 ELSE y1
        step == IF start_x < end_x THEN 1 ELSE -1
        a == 2 * dx
        b == a - 2 * dy
        offs == line_offsets(1, end_y - start_y, a - dy, 0, a, b, step)
    IN <<<<start_x, start_y>>>> \o
       [i \in 1..Len(offs) |-> <<start_x + offs[i], start_y + i>>]

\* draw_line returning at the end of its vertical special case.
draw_line_early_return(x1, y1, x2, y2) ==
    IF x1 = x2
    THEN line_vertical(x1, y1, x2, y2)
    ELSE IF abs_m_le_1(abs(x2 - x1), abs(y2 - y1))
         THEN line_shallow(x1, y1, x2, y2)
         ELSE line_steep(x1, y1, x2, y2)

\* Canvas::draw_line: the coordinates fed to draw_pixel, in order.  The
\* vertical special case does not return, so the match runs after it.
draw_line(x1, y1, x2, y2) ==
    line_vertical(x1, y1, x2, y2) \o
    (IF abs_m_le_1(abs(x2 - x1), abs(y2 - y1))
     THEN line_shallow(x1, y1, x2, y2)
     ELSE line_steep(x1, y1, x2, y2))

----------------------------------------------------------------------------
(* Circle rasterizer. *)

\* Concatenation of a sequence of sequences.
RECURSIVE flatten(_)
flatten(ss) == IF ss = <<>> THEN <<>> ELSE Head(ss) \o flatten(Tail(ss))

\* The midpoint loop `while y_offset <= x_offset`, shared by draw_circle and
\* draw_circle_solid: the <<x_offset, y_offset, e>> at the head of each
\* iteration that runs.
RECURSIVE midpoint_loop(_, _, _)
midpoint_loop(e, x_offset, y_offset) ==
    IF y_offset <= x_offset
    THEN <<<<x_offset, y_offset, e>>>> \o
         (IF e + 2 * y_offset + 1 >= 0
          THEN midpoint_loop(e + 2 * y_offset + 1 - (2 * x_offset - 1),
                             x_offset - 1, y_offset + 1)
          ELSE midpoint_loop(e + 2 * y_offset + 1, x_offset, y_offset + 1))
    ELSE <<>>

\* let mut e = -(r as isize); x_offset = r; y_offset = 0
midpoint(r) == midpoint_loop(-r, r, 0)

\* The eight draw_pixel calls of one iteration of draw_circle, in order.
circle_octants(x, y, x_offset, y_offset) ==
    << <<x + x_offset, y + y_offset>>,
       <<x + x_offset, y - y_offset>>,
       <<x - x_offset, y + y_offset>>,
       <<x - x_offset, y - y_offset>>,
       <<y + y_offset, x + x_offset>>,
       <<y + y_offset, x - x_offset>>,
       <<y - y_offset, x - x_offset>>,
       <<y - y_offset, x + x_offset>> >>

\* Canvas::draw_circle: the coordinates fed to draw_pixel, in order.
draw_circle(x, y, r) ==
    LET its == midpoint(r)
    IN flatten([k \in 1..Len(its) |-> circle_octants(x, y, its[k][1], its[k][2])])

\* buff[index as usize] = value on a Vec<isize>: an index outside the Vec
\* (a negative isize cast to usize is past any length) panics.
vec_store(st, index, value) ==
    IF ~st.ok THEN st
    ELSE IF index >= 0 /\ index < Len(st.arr)
         THEN [ok |-> TRUE, arr |-> [st.arr EXCEPT ![index + 1] = value]]
         ELSE [ok |-> FALSE, arr |-> st.arr]

\* left_buff and right_buff together; a panic in either store ends the call.
store_right(bs, index, value) ==
    LET st == vec_store([ok |-> bs.ok, arr |-> bs.right], index, value)
    IN [ok |-> st.ok, left |-> bs.left, right |-> st.arr]

store_left(bs, index, value) ==
    LET st == vec_store([ok |-> bs.ok, arr |-> bs.left], index, value)
    IN [ok |-> st.ok, left |-> st.arr, right |-> bs.right]

\* The eight stores of one iteration of draw_circle_solid, in order.
solid_stores(bs, x, y, r, x_offset, y_offset) ==
    LET s1 == store_right(bs, y + y_offset - (y - r), x + x_offset)
        s2 == store_right(s1, y - y_offset - (y - r), x + x_offset)
        s3 == store_left(s2, y + y_offset - (y - r), x - x_offset)
        s4 == store_left(s3, y - y_offset - (y - r), x - x_offset)
        s5 == store_right(s4, x + x_offset - (y - r), y + y_offset)
        s6 == store_right(s5, x - x_offset - (y - r), y + y_offset)
        s7 == store_left(s6, x + x_offset - (y - r), y - y_offset)
        s8 == store_left(s7, x - x_offset - (y - r), y - y_offset)
    IN s8

RECURSIVE solid_loop(_, _, _, _, _)
solid_loop(bs, x, y, r, its) ==
    IF its = <<>> THEN bs
    ELSE solid_loop(solid_stores(bs, x, y, r, Head(its)[1], Head(its)[2]),
                    x, y, r, Tail(its))

\* left_buff and right_buff of draw_circle_solid when its while loop ends:
\* vec![0isize; dy + 1] with dy = 2 * r, then the stores.
solid_bounds(x, y, r) ==
    solid_loop([ok |-> TRUE, left |-> vec(0, 2 * r + 1), right |-> vec(0, 2 * r + 1)],
               x, y, r, midpoint(r))

\* for x in x1..x2 on row y
span(x1, x2, y) == [k \in 1..(x2 - x1) |-> <<x1 + (k - 1), y>>]

\* The fill loop of draw_circle_solid: for i in 0..dy, one span per row.
solid_spans(bs, x, y, r) ==
    flatten([k \in 1..(2 * r) |-> span(bs.left[k], bs.right[k], (k - 1) + (y - r))])

\* draw_circle_solid with its fill loop inside the while loop: the rows are
\* filled after every iteration's stores.
draw_circle_solid_fill_in_loop(x, y, r) ==
    LET its == midpoint(r)
        bs(k) == solid_loop([ok |-> TRUE, left |-> vec(0, 2 * r + 1),
                             right |-> vec(0, 2 * r + 1)],
                            x, y, r, SubSeq(its, 1, k))
    IN IF bs(Len(its)).ok
       THEN flatten([k \in 1..Len(its) |-> solid_spans(bs(k), x, y, r)])
       ELSE <<>>

\* Canvas::draw_circle_solid: the coordinates fed to draw_pixel, in order
\* (none when a store panicked).
draw_circle_solid(x, y, r) ==
    LET bs == solid_bounds(x, y, r)
    IN IF bs.ok THEN solid_spans(bs, x, y, r) ELSE <<>>

draw_circle_solid_panics(x, y, r) == ~solid_bounds(x, y, r).ok

----------------------------------------------------------------------------
(* Polygon rasterizer. *)

\* vertices[i] of a Vec indexed from 0
vertex(vertices, i) == vertices[i + 1]

\* polygon_lines without the closing line from the first vertex to the last.
polygon_lines_open(vertices) ==
    IF vertices = <<>> THEN <<>>
    ELSE [i \in 1..(Len(vertices) - 1) |->
             <<vertex(vertices, i)[1], vertex(vertices, i)[2],
               vertex(vertices, i - 1)[1], vertex(vertices, i - 1)[2]>>]

\* Canvas::draw_polygon: the draw_line calls, each <<x1, y1, x2, y2>>, in order.
polygon_lines(vertices) ==
    IF vertices = <<>> THEN <<>>
    ELSE [i \in 1..(Len(vertices) - 1) |->
             <<vertex(vertices, i)[1], vertex(vertices, i)[2],
               vertex(vertices, i - 1)[1], vertex(vertices, i - 1)[2]>>]
         \o << <<vertex(vertices, 0)[1], vertex(vertices, 0)[2],
                 vertex(vertices, Len(vertices) - 1)[1],
                 vertex(vertices, Len(vertices) - 1)[2]>> >>

\* Canvas::draw_polygon: the coordinates fed to draw_pixel, in order.
draw_polygon(vertices) ==
    LET ls == polygon_lines(vertices)
    IN flatten([k \in 1..Len(ls) |-> draw_line(ls[k][1], ls[k][2], ls[k][3], ls[k][4])])

\* The vertical special case of polygon_buffer_line:
\* for i in 0..(end_y - start_y) { buff[i as usize] = x1 }
RECURSIVE buffer_vertical(_, _, _, _)
buffer_vertical(st, i, n, x1) ==
    IF i >= n THEN st ELSE buffer_vertical(vec_store(st, i, x1), i + 1, n, x1)

\* The loop of the abs_m <= 1.0 branch of polygon_buffer_line.
RECURSIVE buffer_shallow_loop(_, _, _, _, _, _, _, _, _, _, _, _)
buffer_shallow_loop(st, right, i, n, p, offset, new_line, a, b, step, start_x, start_y) ==
    IF i > n THEN st
    ELSE LET offset2 == IF p < 0 THEN offset ELSE offset + step
             new_line2 == IF p < 0 THEN new_line ELSE TRUE
             p2 == IF p < 0 THEN p + a ELSE p + b
         IN IF right \/ new_line2
            THEN buffer_shallow_loop(vec_store(st, start_y + offset2, start_x + i),
                                     right, i + 1, n, p2, offset2, FALSE,
                                     a, b, step, start_x, start_y)
            ELSE buffer_shallow_loop(st, right, i + 1, n, p2, offset2, new_line2,
                                     a, b, step, start_x, start_y)

buffer_shallow(st, right, x1, y1, x2, y2) ==
    LET dx == abs(x2 - x1)
        dy == abs(y2 - y1)
        start_x == IF x1 < x2 THEN x1 ELSE x2
        start_y == IF x1 < x2 THEN y1 ELSE y2
        end_x == IF x1 < x2 THEN x2 ELSE x1
        end_y == IF x1 < x2 THEN y2 ELSE y1
        step == IF start_y < end_y THEN 1 ELSE -1
        a == 2 * dy
        b == a - 2 * dx
    IN buffer_shallow_loop(vec_store(st, start_y, start_x), right, 1, end_x - start_x,
                           a - dx, 0, FALSE, a, b, step, start_x, start_y)

\* The loop of the other branch of polygon_buffer_line.
RECURSIVE buffer_steep_loop(_, _, _, _, _, _, _, _, _, _)
buffer_steep_loop(st, i, n, p, offset, a, b, step, start_x, start_y) ==
    IF i > n THEN st
    ELSE LET offset2 == IF p < 0 THEN offset ELSE offset + step
             p2 == IF p < 0 THEN p + a ELSE p + b
         IN buffer_steep_loop(vec_store(st, start_y + i, start_x + offset2),
                              i + 1, n, p2, offset2, a, b, step, start_x, start_y)

buffer_steep(st, x1, y1, x2, y2) ==
    LET dx == abs(x2 - x1)
        dy == abs(y2 - y1)
        start_x == IF y1 < y2 THEN x1 ELSE x2
        start_y == IF y1 < y2 THEN y1 ELSE y2
        end_x == IF y1 < y2 THEN x2 ELSE x1
        end_y == IF y1 < y2 THEN y2 ELSE y1
        step == IF start_x < end_x THEN 1 ELSE -1
        a == 2 * dx
        b == a - 2 * dy
    IN buffer_steep_loop(vec_store(st, start_y, start_x), 1, end_y - start_y,
                         a - dy, 0, a, b, step, start_x, start_y)

\* Canvas::polygon_buffer_line on buff = st.arr; st.ok is lost when a store
\* panics.  As in draw_line, the vertical special case does not return.
polygon_buffer_line(st, right, x1, y1, x2, y2) ==
    LET st1 == IF x1 = x2
               THEN buffer_vertical(st, 0, abs(y2 - y1), x1)
               ELSE st
    IN IF abs_m_le_1(abs(x2 - x1), abs(y2 - y1))
       THEN buffer_shallow(st1, right, x1, y1, x2, y2)
       ELSE buffer_steep(st1, x1, y1, x2, y2)

\* The stores polygon_buffer_line makes, in program order, each one as
\* <<index, value>>: first those of the x1 == x2 block, then those of the
\* branch taken.
RECURSIVE shallow_writes(_, _, _, _, _, _, _, _, _, _, _)
shallow_writes(right, i, n, p, offset, new_line, a, b, step, start_x, start_y) ==
    IF i > n THEN <<>>
    ELSE LET offset2 == IF p < 0 THEN offset ELSE offset + step
             new_line2 == IF p < 0 THEN new_line ELSE TRUE
             p2 == IF p < 0 THEN p + a ELSE p + b
         IN IF right \/ new_line2
            THEN <<<<start_y + offset2, start_x + i>>>>
                 \o shallow_writes(right, i + 1, n, p2, offset2, FALSE,
                                   a, b, step, start_x, start_y)
            ELSE shallow_writes(right, i + 1, n, p2, offset2, new_line2,
                                a, b, step, start_x, start_y)

RECURSIVE steep_writes(_, _, _, _, _, _, _, _, _)
steep_writes(i, n, p, offset, a, b, step, start_x, start_y) ==
    IF i > n THEN <<>>
    ELSE LET offset2 == IF p < 0 THEN offset ELSE offset + step
             p2 == IF p < 0 THEN p + a ELSE p + b
         IN <<<<start_y + i, start_x + offset2>>>>
            \o steep_writes(i + 1, n, p2, offset2, a, b, step, start_x, start_y)

buffer_line_writes(right, x1, y1, x2, y2) ==
    LET dx == abs(x2 - x1)
        dy == abs(y2 - y1)
        vertical == IF x1 = x2 THEN [k \in 1..dy |-> <<k - 1, x1>>] ELSE <<>>
        by_x == x1 < x2
        by_y == y1 < y2
    IN vertical \o
       IF abs_m_le_1(dx, dy)
       THEN LET start_x == IF by_x THEN x1 ELSE x2
                start_y == IF by_x THEN y1 ELSE y2
                end_x == IF by_x THEN x2 ELSE x1
                end_y == IF by_x THEN y2 ELSE y1
                step == IF start_y < end_y THEN 1 ELSE -1
            IN <<<<start_y, start_x>>>>
               \o shallow_writes(right, 1, end_x - start_x, 2 * dy - dx, 0, FALSE,
                                 2 * dy, 2 * dy - 2 * dx, step, start_x, start_y)
       ELSE LET start_x == IF by_y THEN x1 ELSE x2
                start_y == IF by_y THEN y1 ELSE y2
                end_x == IF by_y THEN x2 ELSE x1
                end_y == IF by_y THEN y2 ELSE y1
                step == IF start_x < end_x THEN 1 ELSE -1
            IN <<<<start_y, start_x>>>>
               \o steep_writes(1, end_y - start_y, 2 * dx - dy, 0,
                               2 * dx, 2 * dx - 2 * dy, step, start_x, start_y)

\* The stores of one chain walk of draw_polygon_solid, edge after edge.
chain_writes(right, edges) ==
    flatten([k \in 1..Len(edges) |->
                buffer_line_writes(right, edges[k][2], edges[k][3],
                                   edges[k][4], edges[k][5])])

\* A sequence of stores applied to buff in order.
RECURSIVE apply_writes(_, _)
apply_writes(st, writes) ==
    IF writes = <<>> THEN st
    ELSE apply_writes(vec_store(st, Head(writes)[1], Head(writes)[2]), Tail(writes))

\* The scan for min_vert and max_vert: <<min_vert, max_vert>> after index i.
RECURSIVE extreme_verts(_, _, _, _)
extreme_verts(vertices, i, min_vert, max_vert) ==
    IF i >= Len(vertices) THEN <<min_vert, max_vert>>
    ELSE LET min2 == IF vertex(vertices, i)[2] < vertex(vertices, min_vert)[2]
                     THEN i ELSE min_vert
             max2 == IF vertex(vertices, i)[2] > vertex(vertices, max_vert)[2]
                     THEN i ELSE max_vert
         IN extreme_verts(vertices, i + 1, min2, max2)

\* ring_edges going on until the edge that starts at stop.
RECURSIVE ring_edges_past_stop(_, _, _)
ring_edges_past_stop(vertices, vert_index, stop) ==
    LET n == Len(vertices)
        v1 == vertex(vertices, vert_index % n)
        v2 == vertex(vertices, (vert_index + 1) % n)
        edge == <<vert_index % n, v1[1], v1[2], v2[1], v2[2]>>
    IN IF vert_index % n = stop
       THEN <<edge>>
       ELSE <<edge>> \o ring_edges_past_stop(vertices, vert_index + 1, stop)

\* One of the two `loop`s of draw_polygon_solid: the edges from vert_index on,
\* in increasing index order round the ring, until the index reaches stop.
\* Each edge is <<index of its first vertex, x1, y1, x2, y2>>.
RECURSIVE ring_edges(_, _, _)
ring_edges(vertices, vert_index, stop) ==
    LET n == Len(vertices)
        v1 == vertex(vertices, vert_index % n)
        v2 == vertex(vertices, (vert_index + 1) % n)
        edge == <<vert_index % n, v1[1], v1[2], v2[1], v2[2]>>
    IN IF (vert_index + 1) % n = stop
       THEN <<edge>>
       ELSE <<edge>> \o ring_edges(vertices, vert_index + 1, stop)

RECURSIVE buffer_edges(_, _, _)
buffer_edges(st, right, edges) ==
    IF edges = <<>> THEN st
    ELSE buffer_edges(polygon_buffer_line(st, right, Head(edges)[2], Head(edges)[3],
                                          Head(edges)[4], Head(edges)[5]),
                      right, Tail(edges))

\* draw_polygon_solid up to its fill loop, for a non-empty vertex list.
polygon_bounds(vertices, clockwise) ==
    LET ext == extreme_verts(vertices, 0, 0, 0)
        min_vert == ext[1]
        max_vert == ext[2]
        start_x == vertex(vertices, min_vert)[1]
        start_y == vertex(vertices, min_vert)[2]
        moved == [k \in 1..Len(vertices) |->
                     <<vertices[k][1] - start_x, vertices[k][2] - start_y>>]
        dy == vertex(moved, max_vert)[2] + 1
        start_vert == IF clockwise THEN min_vert ELSE max_vert
        end_vert == IF clockwise THEN max_vert ELSE min_vert
        right_edges == ring_edges(moved, start_vert, end_vert)
        left_edges == ring_edges(moved, end_vert, start_vert)
        rb == buffer_edges([ok |-> TRUE, arr |-> vec(0, dy)], TRUE, right_edges)
        lb == buffer_edges([ok |-> rb.ok, arr |-> vec(0, dy)], FALSE, left_edges)
    IN [ok |-> lb.ok, left |-> lb.arr, right |-> rb.arr, dy |-> dy,
        start_x |-> start_x, start_y |-> start_y,
        right_edges |-> right_edges, left_edges |-> left_edges]

\* The fill loop of draw_polygon_solid: for i in 0..dy, one span per row.
polygon_spans(pb) ==
    flatten([k \in 1..pb.dy |->
                span(pb.left[k] + pb.start_x, pb.right[k] + pb.start_x,
                     (k - 1) + pb.start_y)])

\* Canvas::draw_polygon_solid: the coordinates fed to draw_pixel, in order.
draw_polygon_solid(vertices, clockwise) ==
    IF vertices = <<>> THEN <<>>
    ELSE LET pb == polygon_bounds(vertices, clockwise)
         IN IF pb.ok THEN polygon_spans(pb) ELSE <<>>

draw_polygon_solid_panics(vertices, clockwise) ==
    vertices # <<>> /\ ~polygon_bounds(vertices, clockwise).ok

----------------------------------------------------------------------------
(* The state machine. *)

\* A call can be made: the process has not panicked, and the model's budget.
Running == ~panicked /\ steps < MaxOps

\* The line, circle and polygon calls are followed on a canvas that is new
\* or has just been filled, and no call is followed after them.
Fresh == Running /\ op.name \in {"new", "fill"}

\* Canvas::new(width, height).
Constructed ==
    /\ width \in Dims
    /\ height \in Dims
    /\ buffer = vec(Black, width * height)
    /\ ctor = [width |-> width, height |-> height]
    /\ op = Call("new", <<width, height>>, Black, NoPaint)
    /\ ret = Unit
    /\ calls = <<>>
    /\ lines = <<>>
    /\ prev = <<>>
    /\ panicked = FALSE
    /\ steps = 0
    /\ pc = "idle"

Init == Constructed /\ loc = <<>>

\* What every call does besides its own effect.
Record(call, result, pts, n) ==
    /\ op' = call
    /\ ret' = result
    /\ calls' = pts
    /\ prev' = buffer
    /\ steps' = n
    /\ UNCHANGED <<width, height, ctor, pc, loc>>

Get(x, y) ==
    /\ lines' = <<>>
    /\ buffer' = buffer
    /\ panicked' = FALSE
    /\ Record(Call("get", <<x, y>>, Black, NoPaint), get(buffer, x, y), <<>>, steps + 1)

Set(x, y, color) ==
    /\ lines' = <<>>
    /\ buffer' = set_buffer(buffer, x, y, color)
    /\ panicked' = FALSE
    /\ Record(Call("set", <<x, y>>, color, NoPaint), set_result(buffer, x, y), <<>>,
              steps + 1)

Fill(color) ==
    /\ lines' = <<>>
    /\ buffer' = fill_buffer(color)
    /\ panicked' = FALSE
    /\ Record(Call("fill", <<>>, color, NoPaint), Unit, <<>>, steps + 1)

BufferU32 ==
    /\ lines' = <<>>
    /\ buffer' = buffer
    /\ panicked' = FALSE
    /\ Record(Call("buffer_u32", <<>>, Black, NoPaint), Words(buffer_u32(buffer)), <<>>,
              steps + 1)

DrawPixel(x, y, color) ==
    /\ lines' = <<>>
    /\ buffer' = draw_pixel(buffer, x, y, color)
    /\ panicked' = FALSE
    /\ Record(Call("draw_pixel", <<x, y>>, Black, color),
              draw_pixel_result(buffer, x, y), <<<<x, y>>>>, steps + 1)

DrawLine(x1, y1, x2, y2, color) ==
    /\ lines' = <<>>
    /\ LET pts == draw_line(x1, y1, x2, y2)
       IN /\ buffer' = draw_pixels(buffer, pts, color)
          /\ Record(Call("draw_line", <<x1, y1, x2, y2>>, Black, color), Unit, pts,
                    MaxOps)
    /\ panicked' = FALSE

DrawCircle(x, y, r, color) ==
    /\ lines' = <<>>
    /\ LET pts == draw_circle(x, y, r)
       IN /\ buffer' = draw_pixels(buffer, pts, color)
          /\ Record(Call("draw_circle", <<x, y, r>>, Black, color), Unit, pts, MaxOps)
    /\ panicked' = FALSE

DrawCircleSolid(x, y, r, color) ==
    /\ lines' = <<>>
    /\ LET pts == draw_circle_solid(x, y, r)
       IN /\ buffer' = draw_pixels(buffer, pts, color)
          /\ Record(Call("draw_circle_solid", <<x, y, r>>, Black, color), Unit, pts,
                    MaxOps)
    /\ panicked' = draw_circle_solid_panics(x, y, r)

DrawPolygon(vertices, color) ==
    /\ lines' = polygon_lines(vertices)
    /\ LET pts == draw_polygon(vertices)
       IN /\ buffer' = draw_pixels(buffer, pts, color)
          /\ Record(CallPolygon("draw_polygon", vertices, FALSE, color), Unit, pts,
                    MaxOps)
    /\ panicked' = FALSE

DrawPolygonSolid(vertices, clockwise, color) ==
    /\ lines' = <<>>
    /\ LET pts == draw_polygon_solid(vertices, clockwise)
       IN /\ buffer' = draw_pixels(buffer, pts, color)
          /\ Record(CallPolygon("draw_polygon_solid", vertices, clockwise, color),
                    Unit, pts, MaxOps)
    /\ panicked' = draw_polygon_solid_panics(vertices, clockwise)

CallGet == Running /\ \E x \in UCoords, y \in UCoords : Get(x, y)
CallSet == Running /\ \E x \in UCoords, y \in UCoords, c \in Colors : Set(x, y, c)
CallFill == Running /\ \E c \in Colors : Fill(c)
CallBufferU32 == Running /\ BufferU32
CallDrawPixel == Running /\ \E x \in Coords, y \in Coords, c \in Paints : DrawPixel(x, y, c)
CallDrawLine ==
    Fresh /\ \E x1 \in Coords, y1 \in Coords, x2 \in Coords, y2 \in Coords, c \in ShapePaints :
        DrawLine(x1, y1, x2, y2, c)
CallDrawCircle ==
    Fresh /\ \E x \in Coords, y \in Coords, r \in 0..MaxRadius, c \in ShapePaints :
        DrawCircle(x, y, r, c)
CallDrawCircleSolid ==
    Fresh /\ \E x \in Coords, y \in Coords, r \in 0..MaxRadius, c \in ShapePaints :
        DrawCircleSolid(x, y, r, c)
CallDrawPolygon == Fresh /\ \E vs \in VertexLists, c \in ShapePaints : DrawPolygon(vs, c)
CallDrawPolygonSolid ==
    Fresh /\ \E vs \in VertexLists \cup Rectangles, cw \in BOOLEAN, c \in ShapePaints :
        DrawPolygonSolid(vs, cw, c)

Next ==
    \/ CallGet
    \/ CallSet
    \/ CallFill
    \/ CallBufferU32
    \/ CallDrawPixel
    \/ CallDrawLine
    \/ CallDrawCircle
    \/ CallDrawCircleSolid
    \/ CallDrawPolygon
    \/ CallDrawPolygonSolid

Spec == Init /\ [][Next]_vars

----------------------------------------------------------------------------
(* The drawing methods one loop iteration at a time.  A behaviour of        *)
(* SpecSteps is one drawing call on a new canvas: pc names the loop the     *)
(* call is in, loc holds its local variables, and each action is one        *)
(* iteration of a loop or the exit from it.  A nested call (draw_pixel,     *)
(* draw_line inside draw_polygon, polygon_buffer_line inside                *)
(* draw_polygon_solid) is part of the iteration that makes it.              *)

\* What a step of a call in progress leaves alone.
Frame == UNCHANGED <<width, height, ctor, op, ret, prev, steps>>

\* self.draw_pixel(..) for each of pts, in order, inside a step.
Feed(pts) ==
    /\ calls' = calls \o pts
    /\ buffer' = draw_pixels(buffer, pts, op.rgba)

\* The call starts: the method's code up to its first loop head.
Begin(call, at, locals) ==
    /\ op' = call
    /\ ret' = Unit
    /\ prev' = buffer
    /\ steps' = steps + 1
    /\ calls' = <<>>
    /\ lines' = <<>>
    /\ buffer' = buffer
    /\ panicked' = FALSE
    /\ pc' = at
    /\ loc' = locals
    /\ UNCHANGED <<width, height, ctor>>

\* draw_line up to the head of `for i in 0..(end_y - start_y)`; with
\* x1 # x2 the `if` is skipped, which is the loop over an empty range.
BeginLine(x1, y1, x2, y2, color) ==
    Begin(Call("draw_line", <<x1, y1, x2, y2>>, Black, color), "line_vertical",
          [i |-> 0,
           n |-> IF x1 = x2 THEN abs(y2 - y1) ELSE 0,
           start_y |-> IF y1 < y2 THEN y1 ELSE y2])

\* One iteration of the vertical special case.
LineVerticalStep ==
    /\ pc = "line_vertical"
    /\ loc.i < loc.n
    /\ Feed(<< <<op.args[1], loc.start_y + loc.i>> >>)
    /\ loc' = [loc EXCEPT !.i = loc.i + 1]
    /\ UNCHANGED <<pc, lines, panicked>>
    /\ Frame

\* The vertical loop is over: the match on abs_m <= 1.0, the chosen arm's
\* setup and its first draw_pixel.
LineMatch ==
    /\ pc = "line_vertical"
    /\ loc.i >= loc.n
    /\ LET x1 == op.args[1]
           y1 == op.args[2]
           x2 == op.args[3]
           y2 == op.args[4]
           dx == abs(x2 - x1)
           dy == abs(y2 - y1)
           shallow == abs_m_le_1(dx, dy)
           first == IF shallow THEN x1 < x2 ELSE y1 < y2
           start_x == IF first THEN x1 ELSE x2
           start_y == IF first THEN y1 ELSE y2
           end_x == IF first THEN x2 ELSE x1
           end_y == IF first THEN y2 ELSE y1
           a == IF shallow THEN 2 * dy ELSE 2 * dx
           b == IF shallow THEN a - 2 * dx ELSE a - 2 * dy
       IN /\ Feed(<< <<start_x, start_y>> >>)
          /\ loc' = [i |-> 1,
                     n |-> IF shallow THEN end_x - start_x ELSE end_y - start_y,
                     p |-> IF shallow THEN a - dx ELSE a - dy,
                     offset |-> 0,
                     a |-> a,
                     b |-> b,
                     step |-> IF shallow
                              THEN (IF start_y < end_y THEN 1 ELSE -1)
                              ELSE (IF start_x < end_x THEN 1 ELSE -1),
                     start_x |-> start_x,
                     start_y |-> start_y,
                     shallow |-> shallow]
    /\ pc' = "line_loop"
    /\ UNCHANGED <<lines, panicked>>
    /\ Frame

\* One iteration of `for i in 1..=(end_x - start_x)` or of
\* `for i in 1..=(end_y - start_y)`.
LineLoopStep ==
    /\ pc = "line_loop"
    /\ loc.i <= loc.n
    /\ LET offset == IF loc.p < 0 THEN loc.offset ELSE loc.offset + loc.step
           p == IF loc.p < 0 THEN loc.p + loc.a ELSE loc.p + loc.b
       IN /\ Feed(IF loc.shallow
                  THEN << <<loc.start_x + loc.i, loc.start_y + offset>> >>
                  ELSE << <<loc.start_x + offset, loc.start_y + loc.i>> >>)
          /\ loc' = [loc EXCEPT !.i = loc.i + 1, !.p = p, !.offset = offset]
    /\ UNCHANGED <<pc, lines, panicked>>
    /\ Frame

\* The range is exhausted and draw_line returns.
LineExit ==
    /\ pc = "line_loop"
    /\ loc.i > loc.n
    /\ pc' = "done"
    /\ UNCHANGED <<buffer, calls, lines, panicked, loc>>
    /\ Frame

CallBeginLine ==
    /\ pc = "idle"
    /\ loc.name = "draw_line"
    /\ BeginLine(loc.args[1], loc.args[2], loc.args[3], loc.args[4], loc.rgba)

\* draw_circle and draw_circle_solid up to the head of
\* `while y_offset <= x_offset`.
BeginCircle(x, y, r, color) ==
    Begin(Call("draw_circle", <<x, y, r>>, Black, color), "circle_loop",
          [e |-> -r, x_offset |-> r, y_offset |-> 0])

BeginCircleSolid(x, y, r, color) ==
    Begin(Call("draw_circle_solid", <<x, y, r>>, Black, color), "solid_loop",
          [e |-> -r, x_offset |-> r, y_offset |-> 0,
           bs |-> [ok |-> TRUE, left |-> vec(0, 2 * r + 1), right |-> vec(0, 2 * r + 1)]])

\* midpoint_next with e -= 2 * x_offset in place of e -= 2 * x_offset - 1.
midpoint_next_even(l) ==
    LET e == l.e + 2 * l.y_offset + 1
    IN IF e >= 0
       THEN [l EXCEPT !.e = e - 2 * l.x_offset,
                      !.x_offset = l.x_offset - 1,
                      !.y_offset = l.y_offset + 1]
       ELSE [l EXCEPT !.e = e, !.y_offset = l.y_offset + 1]

\* The tail of the loop body: e += 2 * y_offset + 1; y_offset += 1;
\* if e >= 0 { e -= 2 * x_offset - 1; x_offset -= 1 }
midpoint_next(l) ==
    LET e == l.e + 2 * l.y_offset + 1
    IN IF e >= 0
       THEN [l EXCEPT !.e = e - (2 * l.x_offset - 1),
                      !.x_offset = l.x_offset - 1,
                      !.y_offset = l.y_offset + 1]
       ELSE [l EXCEPT !.e = e, !.y_offset = l.y_offset + 1]

\* One iteration of draw_circle's while loop.
CircleStep ==
    /\ pc = "circle_loop"
    /\ loc.y_offset <= loc.x_offset
    /\ Feed(circle_octants(op.args[1], op.args[2], loc.x_offset, loc.y_offset))
    /\ loc' = midpoint_next(loc)
    /\ UNCHANGED <<pc, lines, panicked>>
    /\ Frame

CircleExit ==
    /\ pc = "circle_loop"
    /\ loc.y_offset > loc.x_offset
    /\ pc' = "done"
    /\ UNCHANGED <<buffer, calls, lines, panicked, loc>>
    /\ Frame

\* One iteration of draw_circle_solid's while loop; a store outside the Vec
\* panics and the call ends there.
SolidStep ==
    /\ pc = "solid_loop"
    /\ loc.y_offset <= loc.x_offset
    /\ LET stored == solid_stores(loc.bs, op.args[1], op.args[2], op.args[3],
                                  loc.x_offset, loc.y_offset)
       IN IF stored.ok
          THEN /\ loc' = midpoint_next([loc EXCEPT !.bs = stored])
               /\ UNCHANGED <<pc, panicked>>
          ELSE /\ pc' = "panicked"
               /\ panicked' = TRUE
               /\ loc' = loc
    /\ UNCHANGED <<buffer, calls, lines>>
    /\ Frame

\* The while loop is over: the head of `for i in 0..dy`.
SolidLoopExit ==
    /\ pc = "solid_loop"
    /\ loc.y_offset > loc.x_offset
    /\ pc' = "solid_fill"
    /\ loc' = [i |-> 0, dy |-> 2 * op.args[3], bs |-> loc.bs]
    /\ UNCHANGED <<buffer, calls, lines, panicked>>
    /\ Frame

\* One row of the fill loop, with its `for x in x1..x2`.
SolidFillStep ==
    /\ pc = "solid_fill"
    /\ loc.i < loc.dy
    /\ Feed(span(loc.bs.left[loc.i + 1], loc.bs.right[loc.i + 1],
                 loc.i + (op.args[2] - op.args[3])))
    /\ loc' = [loc EXCEPT !.i = loc.i + 1]
    /\ UNCHANGED <<pc, lines, panicked>>
    /\ Frame

SolidFillExit ==
    /\ pc = "solid_fill"
    /\ loc.i >= loc.dy
    /\ pc' = "done"
    /\ UNCHANGED <<buffer, calls, lines, panicked, loc>>
    /\ Frame


CallBeginCircle ==
    /\ pc = "idle"
    /\ loc.name = "draw_circle"
    /\ BeginCircle(loc.args[1], loc.args[2], loc.args[3], loc.rgba)

CallBeginCircleSolid ==
    /\ pc = "idle"
    /\ loc.name = "draw_circle_solid"
    /\ BeginCircleSolid(loc.args[1], loc.args[2], loc.args[3], loc.rgba)

\* draw_polygon up to the head of `for i in 1..vertices.len()`; the empty
\* list returns at once.
BeginPolygon(vertices, color) ==
    Begin(CallPolygon("draw_polygon", vertices, FALSE, color),
          IF vertices = <<>> THEN "done" ELSE "polygon_loop",
          [i |-> 1])

\* One iteration: draw_line(vertices[i], vertices[i - 1]).
PolygonStep ==
    /\ pc = "polygon_loop"
    /\ loc.i < Len(op.verts)
    /\ LET l == <<vertex(op.verts, loc.i)[1], vertex(op.verts, loc.i)[2],
                  vertex(op.verts, loc.i - 1)[1], vertex(op.verts, loc.i - 1)[2]>>
       IN /\ lines' = Append(lines, l)
          /\ Feed(draw_line(l[1], l[2], l[3], l[4]))
    /\ loc' = [loc EXCEPT !.i = loc.i + 1]
    /\ UNCHANGED <<pc, panicked>>
    /\ Frame

\* The loop is over: the closing draw_line(vertices[0], vertices[len - 1]).
PolygonClose ==
    /\ pc = "polygon_loop"
    /\ loc.i >= Len(op.verts)
    /\ LET l == <<vertex(op.verts, 0)[1], vertex(op.verts, 0)[2],
                  vertex(op.verts, Len(op.verts) - 1)[1],
                  vertex(op.verts, Len(op.verts) - 1)[2]>>
       IN /\ lines' = Append(lines, l)
          /\ Feed(draw_line(l[1], l[2], l[3], l[4]))
    /\ pc' = "done"
    /\ UNCHANGED <<panicked, loc>>
    /\ Frame

CallBeginPolygon ==
    /\ pc = "idle"
    /\ loc.name = "draw_polygon"
    /\ BeginPolygon(loc.verts, loc.rgba)

\* draw_polygon_solid up to its first `loop`: the scan for min_vert and
\* max_vert, the translation, the two buffers, start_vert and end_vert.
\* The empty list returns at once.
BeginPolygonSolid(vertices, clockwise, color) ==
    Begin(CallPolygon("draw_polygon_solid", vertices, clockwise, color),
          IF vertices = <<>> THEN "done" ELSE "right_walk",
          IF vertices = <<>> THEN <<>>
          ELSE LET ext == extreme_verts(vertices, 0, 0, 0)
                   start_x == vertex(vertices, ext[1])[1]
                   start_y == vertex(vertices, ext[1])[2]
                   moved == [k \in 1..Len(vertices) |->
                                <<vertices[k][1] - start_x, vertices[k][2] - start_y>>]
                   dy == vertex(moved, ext[2])[2] + 1
               IN [vertices |-> moved,
                   start_x |-> start_x,
                   start_y |-> start_y,
                   dy |-> dy,
                   start_vert |-> IF clockwise THEN ext[1] ELSE ext[2],
                   end_vert |-> IF clockwise THEN ext[2] ELSE ext[1],
                   vert_index |-> IF clockwise THEN ext[1] ELSE ext[2],
                   right_buff |-> [ok |-> TRUE, arr |-> vec(0, dy)],
                   left_buff |-> [ok |-> TRUE, arr |-> vec(0, dy)],
                   i |-> 0])

\* The edge the walk is at: vertices[vert_index % len] to
\* vertices[(vert_index + 1) % len].
walk_edge(l) ==
    LET v1 == vertex(l.vertices, l.vert_index % Len(l.vertices))
        v2 == vertex(l.vertices, (l.vert_index + 1) % Len(l.vertices))
    IN <<v1[1], v1[2], v2[1], v2[2]>>

\* One iteration of the first `loop`: the edge goes to right_buff, and the
\* loop breaks when the next index is end_vert.
RightWalkStep ==
    /\ pc = "right_walk"
    /\ LET ed == walk_edge(loc)
           rb == polygon_buffer_line(loc.right_buff, TRUE, ed[1], ed[2], ed[3], ed[4])
           left == (loc.vert_index + 1) % Len(loc.vertices) = loc.end_vert
       IN IF ~rb.ok
          THEN pc' = "panicked" /\ panicked' = TRUE /\ loc' = loc
          ELSE /\ panicked' = panicked
               /\ pc' = IF left THEN "left_walk" ELSE "right_walk"
               /\ loc' = [loc EXCEPT !.right_buff = rb,
                                     !.vert_index = IF left THEN loc.end_vert
                                                    ELSE loc.vert_index + 1]
    /\ UNCHANGED <<buffer, calls, lines>>
    /\ Frame

\* One iteration of the second `loop`: the edge goes to left_buff, and the
\* loop breaks when the next index is start_vert.
LeftWalkStep ==
    /\ pc = "left_walk"
    /\ LET ed == walk_edge(loc)
           lb == polygon_buffer_line(loc.left_buff, FALSE, ed[1], ed[2], ed[3], ed[4])
           left == (loc.vert_index + 1) % Len(loc.vertices) = loc.start_vert
       IN IF ~lb.ok
          THEN pc' = "panicked" /\ panicked' = TRUE /\ loc' = loc
          ELSE /\ panicked' = panicked
               /\ pc' = IF left THEN "polygon_fill" ELSE "left_walk"
               /\ loc' = [loc EXCEPT !.left_buff = lb,
                                     !.vert_index = loc.vert_index + 1]
    /\ UNCHANGED <<buffer, calls, lines>>
    /\ Frame

\* One row of `for i in 0..dy`, with its `for x in x1..x2`.
PolygonFillStep ==
    /\ pc = "polygon_fill"
    /\ loc.i < loc.dy
    /\ Feed(span(loc.left_buff.arr[loc.i + 1] + loc.start_x,
                 loc.right_buff.arr[loc.i + 1] + loc.start_x,
                 loc.i + loc.start_y))
    /\ loc' = [loc EXCEPT !.i = loc.i + 1]
    /\ UNCHANGED <<pc, lines, panicked>>
    /\ Frame

PolygonFillExit ==
    /\ pc = "polygon_fill"
    /\ loc.i >= loc.dy
    /\ pc' = "done"
    /\ UNCHANGED <<buffer, calls, lines, panicked, loc>>
    /\ Frame

CallBeginPolygonSolid ==
    /\ pc = "idle"
    /\ loc.name = "draw_polygon_solid"
    /\ BeginPolygonSolid(loc.verts, loc.clockwise, loc.rgba)

NextSteps ==
    \/ CallBeginLine
    \/ LineVerticalStep
    \/ LineMatch
    \/ LineLoopStep
    \/ LineExit
    \/ CallBeginCircle
    \/ CircleStep
    \/ CircleExit
    \/ CallBeginCircleSolid
    \/ SolidStep
    \/ SolidLoopExit
    \/ SolidFillStep
    \/ SolidFillExit
    \/ CallBeginPolygon
    \/ PolygonStep
    \/ PolygonClose
    \/ CallBeginPolygonSolid
    \/ RightWalkStep
    \/ LeftWalkStep
    \/ PolygonFillStep
    \/ PolygonFillExit

\* Radii of the stepwise circles.
MaxStepRadius == 6

\* The calls a stepwise run can be given.
StepCalls ==
    {Call("draw_line", <<x1, y1, x2, y2>>, Black, c) :
         x1 \in Coords, y1 \in Coords, x2 \in Coords, y2 \in Coords, c \in ShapePaints}
    \cup {Call(name, <<x, y, r>>, Black, c) :
              name \in {"draw_circle", "draw_circle_solid"},
              x \in Coords, y \in Coords, r \in 0..MaxStepRadius, c \in ShapePaints}
    \cup {CallPolygon("draw_polygon", vs, FALSE, c) : vs \in VertexLists, c \in ShapePaints}
    \cup {CallPolygon("draw_polygon_solid", vs, cw, c) :
              vs \in VertexLists \cup Rectangles, cw \in BOOLEAN, c \in ShapePaints}

\* A new canvas and the one drawing call to make on it.
InitSteps == Constructed /\ loc \in StepCalls

SpecSteps == InitSteps /\ [][NextSteps]_vars

----------------------------------------------------------------------------
(* Properties. *)

\* The arguments of the last call.
ArgX == op.args[1]
ArgY == op.args[2]
PaintRGB == RGB(op.rgba.r, op.rgba.g, op.rgba.b)

\* Pixel (x, y) of a buffer of this canvas, for (x, y) inside it.
Cell(buf, x, y) == buf[y * width + x + 1]

\* How often a coordinate occurs in a sequence of draw_pixel calls.
Count(pts, e) == Cardinality({k \in DOMAIN pts : pts[k] = e})

Points(pts) == {pts[k] : k \in DOMAIN pts}

\* A colour composited n times with the same paint.
RECURSIVE Composite(_, _, _)
Composite(c, paint, n) ==
    IF n = 0 THEN c ELSE Composite(add_rgba(c, paint), paint, n - 1)

\* C1: for every out-of-bounds (x, y), x >= width or y >= height, get and set
\* return None and the buffer is unchanged by the call.
C1_OutOfBoundsAbsent ==
    (op.name \in {"get", "set"} /\ (ArgX >= width \/ ArgY >= height))
        => (ret = None /\ buffer = prev)

\* C2: no operation panics, whatever its arguments.
C2_NoPanic == ~panicked

\* C3: for every in-bounds (x, y) and colour c, set(x, y, c) succeeds and a
\* get(x, y) right after it returns c.
C3_SetThenGet ==
    (op.name = "set" /\ ArgX < width /\ ArgY < height)
        => (ret = SomeUnit /\ get(buffer, ArgX, ArgY) = Some(op.rgb))

C3_Witness ==
    /\ op.name = "set" /\ ArgX < width /\ ArgY < height /\ ArgX # ArgY
    /\ Cell(prev, ArgX, ArgY) \in Colors \ {op.rgb}
    /\ get(buffer, ArgX, ArgY) = Some(op.rgb)

\* C4: draw_pixel with alpha 255 at an in-bounds (x, y) leaves the pixel
\* equal to the paint's (r, g, b), whatever it held before.
C4_OpaqueReplaces ==
    (op.name = "draw_pixel" /\ pixel_inside(ArgX, ArgY) /\ op.rgba.a = 255)
        => Cell(buffer, ArgX, ArgY) = PaintRGB

C4_Witness ==
    /\ op.name = "draw_pixel" /\ pixel_inside(ArgX, ArgY) /\ op.rgba.a = 255
    /\ Cell(prev, ArgX, ArgY) \in Colors
    /\ Cell(buffer, ArgX, ArgY) = PaintRGB

\* C5: draw_pixel with alpha 0 at an in-bounds (x, y) leaves the whole buffer
\* as it was.
C5_TransparentNoOp ==
    (op.name = "draw_pixel" /\ pixel_inside(ArgX, ArgY) /\ op.rgba.a = 0)
        => buffer = prev

C5_Witness ==
    /\ op.name = "draw_pixel" /\ pixel_inside(ArgX, ArgY) /\ op.rgba.a = 0
    /\ Cell(prev, ArgX, ArgY) \in Colors
    /\ PaintRGB # Cell(prev, ArgX, ArgY)
    /\ buffer = prev

\* C6: draw_pixel at a signed (x, y) with x < 0, y < 0, x >= width or
\* y >= height returns None and changes no cell of the buffer.
C6_OutsideAbsent ==
    (op.name = "draw_pixel"
        /\ (ArgX < 0 \/ ArgY < 0 \/ ArgX >= width \/ ArgY >= height))
        => (ret = None /\ buffer = prev)

\* x = width on a row that has a row below it: the index y * width + x is a
\* cell of the next row.
C6_Witness ==
    /\ op.name = "draw_pixel" /\ ArgX = width /\ ArgY >= 0 /\ ArgY < height - 1
    /\ op.rgba.a = 255
    /\ ret = None /\ buffer = prev

\* C7: in every reachable state the buffer has width * height cells, and
\* width and height are the values given to Canvas::new.
C7_BufferLength ==
    /\ Len(buffer) = width * height
    /\ width = ctor.width
    /\ height = ctor.height

C7_Witness ==
    /\ steps = MaxOps /\ width # height
    /\ op.name = "draw_polygon_solid" /\ buffer # prev
    /\ prev[1] \in Colors
    /\ Len(buffer) = width * height

\* C8: buffer_u32 returns width * height words, and the word of every
\* in-bounds (x, y) is 0x00RRGGBB of the colour stored there.
C8_Packed32 ==
    op.name = "buffer_u32" =>
        /\ Len(ret.words) = width * height
        /\ \A x \in 0..(width - 1), y \in 0..(height - 1) :
               /\ ret.words[y * width + x + 1] < 16777216
               /\ ret.words[y * width + x + 1] =
                      Cell(buffer, x, y).r * 65536 + Cell(buffer, x, y).g * 256
                          + Cell(buffer, x, y).b

C8_Witness ==
    /\ op.name = "buffer_u32" /\ width > 1 /\ height > 1
    /\ \E x \in 0..(width - 1), y \in 0..(height - 1) :
           /\ Cell(buffer, x, y) = RGB(255, 128, 64)
           /\ ret.words[y * width + x + 1] = 16744512
    /\ \E i \in DOMAIN ret.words : ret.words[i] = 0

\* C9: draw_line issues draw_pixel for both endpoints, so each endpoint
\* inside the canvas is composited with the paint.
C9_EndpointsDrawn ==
    op.name = "draw_line" =>
        \A e \in {<<op.args[1], op.args[2]>>, <<op.args[3], op.args[4]>>} :
            /\ Count(calls, e) >= 1
            /\ pixel_inside(e[1], e[2]) =>
                   Cell(buffer, e[1], e[2]) =
                       Composite(Cell(prev, e[1], e[2]), op.rgba, Count(calls, e))

C9_Witness ==
    /\ op.name = "draw_line"
    /\ abs(op.args[3] - op.args[1]) = 2 /\ abs(op.args[4] - op.args[2]) = 1
    /\ pixel_inside(op.args[1], op.args[2]) /\ pixel_inside(op.args[3], op.args[4])
    /\ Cell(buffer, op.args[1], op.args[2]) # Cell(prev, op.args[1], op.args[2])
    /\ Cell(buffer, op.args[3], op.args[4]) # Cell(prev, op.args[3], op.args[4])

\* C10: the set of coordinates draw_line feeds to draw_pixel is connected:
\* it has exactly one coordinate in each column between the endpoints for a
\* shallow line (|dy| <= |dx|), one in each row for a steep line, none
\* elsewhere, and neighbouring ones differ by at most 1 in the other axis.
LineLo(i) == IF op.args[i] < op.args[i + 2] THEN op.args[i] ELSE op.args[i + 2]
LineHi(i) == IF op.args[i] < op.args[i + 2] THEN op.args[i + 2] ELSE op.args[i]

\* Along axis i (1 for x, 2 for y), with j the other axis.
OnePerStep(i, j) ==
    /\ \A p \in Points(calls) : p[i] \in LineLo(i)..LineHi(i)
    /\ \A v \in LineLo(i)..LineHi(i) :
           Cardinality({p \in Points(calls) : p[i] = v}) = 1
    /\ \A p \in Points(calls), q \in Points(calls) :
           q[i] = p[i] + 1 => abs(q[j] - p[j]) <= 1

C10_Connected ==
    op.name = "draw_line" =>
        /\ <<op.args[1], op.args[2]>> \in Points(calls)
        /\ <<op.args[3], op.args[4]>> \in Points(calls)
        /\ IF abs(op.args[4] - op.args[2]) <= abs(op.args[3] - op.args[1])
           THEN OnePerStep(1, 2)
           ELSE OnePerStep(2, 1)

C10_Witness ==
    /\ op.name = "draw_line"
    /\ abs(op.args[3] - op.args[1]) = 2 /\ abs(op.args[4] - op.args[2]) = 4
    /\ Cardinality(Points(calls)) = 5
    /\ OnePerStep(2, 1)

\* C11: draw_line calls draw_pixel exactly once for every coordinate of the
\* line, for any two endpoints (x1 = x2 included), so each pixel of the line
\* inside the canvas is the paint composited once over what it was.
C11_OncePerCoordinate ==
    op.name = "draw_line" =>
        \A p \in Points(calls) :
            /\ Count(calls, p) = 1
            /\ pixel_inside(p[1], p[2]) =>
                   Cell(buffer, p[1], p[2]) = add_rgba(Cell(prev, p[1], p[2]), op.rgba)

\* C12: a zero-length line (x1 = x2 and y1 = y2) is exactly one draw_pixel
\* call, at (x1, y1): that pixel, when inside the canvas, is the paint
\* composited once over what it was, and every other pixel is as it was.
ZeroLength == op.name = "draw_line" /\ op.args[1] = op.args[3] /\ op.args[2] = op.args[4]

C12_ZeroLengthOnePixel ==
    ZeroLength =>
        /\ calls = << <<ArgX, ArgY>> >>
        /\ \A x \in 0..(width - 1), y \in 0..(height - 1) :
               Cell(buffer, x, y) =
                   IF x = ArgX /\ y = ArgY
                   THEN add_rgba(Cell(prev, x, y), op.rgba)
                   ELSE Cell(prev, x, y)

C12_Witness ==
    /\ ZeroLength
    /\ pixel_inside(ArgX, ArgY)
    /\ op.rgba.a = 128
    /\ Cell(prev, ArgX, ArgY) # Black
    /\ Cell(buffer, ArgX, ArgY) # Cell(prev, ArgX, ArgY)

\* C13: a horizontal line (y1 = y2) with both endpoints inside the canvas
\* and a paint of alpha 255 sets exactly the pixels (x, y1) with
\* min(x1, x2) <= x <= max(x1, x2) to the paint's colour and changes no
\* other pixel.
Horizontal ==
    /\ op.name = "draw_line"
    /\ op.args[2] = op.args[4]
    /\ pixel_inside(op.args[1], op.args[2])
    /\ pixel_inside(op.args[3], op.args[4])
    /\ op.rgba.a = 255

C13_HorizontalExact ==
    Horizontal =>
        \A x \in 0..(width - 1), y \in 0..(height - 1) :
            Cell(buffer, x, y) =
                IF y = op.args[2] /\ LineLo(1) <= x /\ x <= LineHi(1)
                THEN PaintRGB
                ELSE Cell(prev, x, y)

C13_Witness ==
    /\ Horizontal
    /\ op.args[1] = op.args[3] + 2
    /\ height > 1
    /\ \A x \in 0..(width - 1), y \in 0..(height - 1) :
           Cell(prev, x, y) # Black /\ Cell(prev, x, y) # PaintRGB
    /\ Cardinality({<<x, y>> \in (0..(width - 1)) \X (0..(height - 1)) :
                        Cell(buffer, x, y) = PaintRGB}) = 3

\* C14: for every centre (cx, cy), cx # cy included, and every radius, the
\* set of coordinates draw_circle draws is invariant under the 8 reflections
\* about the centre: with (cx + a, cy + b) it holds (cx +- a, cy +- b) and
\* (cx +- b, cy +- a).
C14_EightReflections ==
    op.name = "draw_circle" =>
        \A p \in Points(calls) :
            LET a == p[1] - ArgX
                b == p[2] - ArgY
            IN \A sa \in {-1, 1}, sb \in {-1, 1} :
                   /\ <<ArgX + sa * a, ArgY + sb * b>> \in Points(calls)
                   /\ <<ArgX + sb * b, ArgY + sa * a>> \in Points(calls)

\* C15: the coordinates draw_circle_solid(cx, cy, r) draws include every
\* coordinate draw_circle(cx, cy, r) draws, and on each row the drawn x
\* values form one contiguous interval.
C15_SolidCoversOutline ==
    op.name = "draw_circle_solid" =>
        /\ Points(draw_circle(op.args[1], op.args[2], op.args[3])) \subseteq Points(calls)
        /\ \A p \in Points(calls), q \in Points(calls) :
               (p[2] = q[2] /\ p[1] < q[1]) =>
                   \A x \in p[1]..q[1] : <<x, p[2]>> \in Points(calls)

\* C16: draw_circle_solid calls draw_pixel at most once per coordinate, so
\* every pixel it draws inside the canvas is the paint composited exactly
\* once over what it was, and every other pixel is as it was.
C16_SolidOncePerCoordinate ==
    op.name = "draw_circle_solid" =>
        /\ \A p \in Points(calls) : Count(calls, p) = 1
        /\ \A x \in 0..(width - 1), y \in 0..(height - 1) :
               Cell(buffer, x, y) =
                   IF <<x, y>> \in Points(calls)
                   THEN add_rgba(Cell(prev, x, y), op.rgba)
                   ELSE Cell(prev, x, y)

C16_Witness ==
    /\ op.name = "draw_circle_solid"
    /\ op.args[3] = 2
    /\ op.rgba.a = 128
    /\ ~panicked
    /\ Cell(prev, 0, 0) # Black
    /\ Cardinality({p \in Points(calls) : pixel_inside(p[1], p[2])}) >= 6
    /\ \A p \in Points(calls) :
           pixel_inside(p[1], p[2]) => Cell(buffer, p[1], p[2]) # Cell(prev, p[1], p[2])

\* C17: for a vertex list v[0..n-1], n > 0, draw_polygon calls draw_line
\* once for each consecutive pair (v[i-1], v[i]), 1 <= i < n, and once more
\* for the closing pair (v[n-1], v[0]), and draws nothing but these lines;
\* for the empty list it makes no draw call and leaves the canvas as it was.
Ends(l) == {<<l[1], l[2]>>, <<l[3], l[4]>>}

C17_PolygonLines ==
    op.name = "draw_polygon" =>
        LET n == Len(op.verts)
        IN IF n = 0
           THEN lines = <<>> /\ calls = <<>> /\ buffer = prev
           ELSE /\ Len(lines) = n
                /\ \A i \in 1..(n - 1) :
                       Ends(lines[i]) = {vertex(op.verts, i - 1), vertex(op.verts, i)}
                /\ Ends(lines[n]) = {vertex(op.verts, n - 1), vertex(op.verts, 0)}
                /\ calls = flatten([k \in 1..n |->
                               draw_line(lines[k][1], lines[k][2], lines[k][3], lines[k][4])])

C17_Witness ==
    /\ op.name = "draw_polygon"
    /\ Len(op.verts) = 3
    /\ Cardinality({op.verts[i] : i \in 1..3}) = 3
    /\ Len(lines) = 3
    /\ Ends(lines[3]) = {op.verts[3], op.verts[1]}
    /\ buffer # prev

\* C18: for a convex polygon whose clockwise flag matches the order of its
\* vertices, draw_polygon_solid draws every pixel of the canvas that lies
\* strictly inside the polygon and draws no coordinate strictly outside it.
\* The order called clockwise is that of (2,2), (2,6), (6,6), (6,2).

\* Twice the signed area of the triangle a, b, p.
Cross(a, b, p) == (b[1] - a[1]) * (p[2] - a[2]) - (b[2] - a[2]) * (p[1] - a[1])

\* Vertex i of the ring v, counted from 1 and wrapping.
Ring(v, i) == v[((i - 1) % Len(v)) + 1]

Turn(v, i) == Cross(Ring(v, i), Ring(v, i + 1), Ring(v, i + 2))

ClockwiseOrder(v) == \A i \in 1..Len(v) : Turn(v, i) < 0

\* Strictly convex; with at most four vertices this makes the polygon simple.
Convex(v) ==
    /\ Len(v) \in 3..4
    /\ \/ \A i \in 1..Len(v) : Turn(v, i) < 0
       \/ \A i \in 1..Len(v) : Turn(v, i) > 0

StrictlyInside(v, p) ==
    \A i \in 1..Len(v) : Cross(Ring(v, i), Ring(v, i + 1), p) * Turn(v, 1) > 0

StrictlyOutside(v, p) ==
    \E i \in 1..Len(v) : Cross(Ring(v, i), Ring(v, i + 1), p) * Turn(v, 1) < 0

C18_ConvexFill ==
    (/\ op.name = "draw_polygon_solid"
     /\ Convex(op.verts)
     /\ op.clockwise = ClockwiseOrder(op.verts)) =>
        /\ \A x \in 0..(width - 1), y \in 0..(height - 1) :
               StrictlyInside(op.verts, <<x, y>>) => <<x, y>> \in Points(calls)
        /\ \A p \in Points(calls) : ~StrictlyOutside(op.verts, p)

\* C19: an axis-aligned rectangle listed as (x0,y0), (x0,y1), (x1,y1),
\* (x1,y0) with x0 < x1 and y0 < y1, as (2,2), (2,6), (6,6), (6,2) is, drawn
\* with clockwise = TRUE and a paint of alpha 255: every pixel of the canvas
\* strictly inside it is set to the paint's colour, and every pixel outside
\* its extent is left as it was.
RectangleOrder ==
    /\ op.name = "draw_polygon_solid"
    /\ Len(op.verts) = 4
    /\ op.verts[1][1] = op.verts[2][1] /\ op.verts[2][2] = op.verts[3][2]
    /\ op.verts[3][1] = op.verts[4][1] /\ op.verts[4][2] = op.verts[1][2]
    /\ op.verts[1][1] < op.verts[3][1] /\ op.verts[1][2] < op.verts[3][2]

C19_RectangleInterior ==
    (RectangleOrder /\ op.clockwise /\ op.rgba.a = 255) =>
        \A x \in 0..(width - 1), y \in 0..(height - 1) :
            /\ (/\ op.verts[1][1] < x /\ x < op.verts[3][1]
                /\ op.verts[1][2] < y /\ y < op.verts[3][2]) =>
                   Cell(buffer, x, y) = PaintRGB
            /\ (\/ x < op.verts[1][1] \/ x > op.verts[3][1]
                \/ y < op.verts[1][2] \/ y > op.verts[3][2]) =>
                   Cell(buffer, x, y) = Cell(prev, x, y)

\* C20: clipping is silent and per pixel.  After draw_line, draw_circle,
\* draw_polygon or draw_polygon_solid every pixel of the canvas is the paint
\* composited over what it was once per time its coordinate was fed to
\* draw_pixel, whatever was fed outside the canvas before or after it (so it
\* is what a larger canvas would hold there), and the pixels changed are
\* exactly the coordinates fed to draw_pixel that lie in [0,W) x [0,H).
ClippedShape == op.name \in {"draw_line", "draw_circle", "draw_polygon", "draw_polygon_solid"}

Max0(n) == IF n < 0 THEN 0 ELSE n

\* Iterations a ring walk at index vert_index has left before the index
\* after it is stop.
WalkLeft(vert_index, stop, n) == ((stop + 2 * n - vert_index - 1) % n) + 1

Rank ==
    CASE pc = "line_vertical" ->
             Max0(loc.n - loc.i) + abs(op.args[3] - op.args[1])
                 + abs(op.args[4] - op.args[2]) + 3
      [] pc = "line_loop" -> Max0(loc.n - loc.i + 1) + 1
      [] pc = "circle_loop" -> Max0(loc.x_offset - loc.y_offset + 1) + 1
      [] pc = "solid_loop" ->
             Max0(loc.x_offset - loc.y_offset + 1) + 2 * op.args[3] + 3
      [] pc = "solid_fill" -> Max0(loc.dy - loc.i) + 1
      [] pc = "polygon_loop" -> Max0(Len(op.verts) - loc.i) + 1
      [] pc = "right_walk" ->
             WalkLeft(loc.vert_index, loc.end_vert, Len(loc.vertices))
                 + Len(loc.vertices) + loc.dy + 2
      [] pc = "left_walk" ->
             WalkLeft(loc.vert_index, loc.start_vert, Len(loc.vertices)) + loc.dy + 1
      [] pc = "polygon_fill" -> Max0(loc.dy - loc.i) + 1
      [] OTHER -> 0

C21_Terminates ==
    [][pc # "idle" => (Rank' < Rank /\ Rank' >= 0 /\ pc' # "panicked")]_vars

\* C22: at each step of draw_circle, with offsets (x_offset, y_offset), the
\* 8 draw_pixel calls target exactly the coordinates
\* (cx +- x_offset, cy +- y_offset) and (cx +- y_offset, cy +- x_offset),
\* for every centre, cx # cy included.
StepTargets ==
    {<<op.args[1] + sa * loc.x_offset, op.args[2] + sb * loc.y_offset>> :
         sa \in {-1, 1}, sb \in {-1, 1}}
    \cup {<<op.args[1] + sa * loc.y_offset, op.args[2] + sb * loc.x_offset>> :
              sa \in {-1, 1}, sb \in {-1, 1}}

C22_StepTargets ==
    [][(pc = "circle_loop" /\ loc.y_offset <= loc.x_offset) =>
           /\ Len(calls') = Len(calls) + 8
           /\ Points(SubSeq(calls', Len(calls) + 1, Len(calls'))) = StepTargets]_vars

\* C23: draw_circle_solid holds a left and a right bound for every row of
\* [cy - r, cy + r] and its fill loop handles every one of these 2r + 1
\* rows, the bottom row cy + r included, drawing the row from its left bound
\* to its right bound (the right bound itself drawn or not).
C23_AllRowsPainted ==
    op.name = "draw_circle_solid" =>
        /\ pc # "panicked"
        /\ pc = "done" =>
               /\ loc.i = 2 * op.args[3] + 1
               /\ \A k \in 0..(2 * op.args[3]) :
                      LET row == op.args[2] - op.args[3] + k
                          drawn == {p[1] : p \in {q \in Points(calls) : q[2] = row}}
                      IN /\ \A x \in loc.bs.left[k + 1]..(loc.bs.right[k + 1] - 1) :
                                x \in drawn
                         /\ \A x \in drawn :
                                loc.bs.left[k + 1] <= x /\ x <= loc.bs.right[k + 1]

\* C24: in draw_polygon_solid, after both chain walks, right_buff[row] holds
\* the last x stored on that row along the right chain and left_buff[row]
\* the first x stored on that row along the left chain: a left_buff row,
\* once set, is not overwritten by a later store of the same or a later edge.
RowWrites(writes, row) == SelectSeq(writes, LAMBDA w : w[1] = row)

C24_FirstLeftLastRight ==
    (/\ op.name = "draw_polygon_solid"
     /\ op.verts # <<>>
     /\ ~panicked) =>
        LET pb == polygon_bounds(op.verts, op.clockwise)
            rw == chain_writes(TRUE, pb.right_edges)
            lw == chain_writes(FALSE, pb.left_edges)
        IN \A row \in 0..(pb.dy - 1) :
               /\ RowWrites(rw, row) # <<>> =>
                      pb.right[row + 1] =
                          RowWrites(rw, row)[Len(RowWrites(rw, row))][2]
               /\ RowWrites(lw, row) # <<>> =>
                      pb.left[row + 1] = RowWrites(lw, row)[1][2]

\* C25: a degenerate circle does not fail and gives minimal output: for
\* r = 0 and every centre, draw_circle and draw_circle_solid leave the
\* canvas as one draw_pixel(cx, cy, paint) leaves it, or as no call at all
\* leaves it.
C25_DegenerateCircle ==
    (op.name \in {"draw_circle", "draw_circle_solid"} /\ op.args[3] = 0) =>
        /\ ~panicked
        /\ \/ buffer = prev
           \/ buffer = draw_pixel(prev, ArgX, ArgY, op.rgba)

\* C26: for x1 = x2 and y1 # y2, draw_line runs its vertical special case
\* and then, not having returned, its steep branch with dx = 0: the
\* draw_pixel calls are the special case's pass (the rows from the lower y
\* up to, not including, the higher y) and then a second pass over the whole
\* column, so a pixel of the column is composited by both passes.
Vertical ==
    /\ op.name = "draw_line"
    /\ op.args[1] = op.args[3]
    /\ op.args[2] # op.args[4]

C26_VerticalTwoPasses ==
    Vertical =>
        /\ calls = [k \in 1..(LineHi(2) - LineLo(2)) |-> <<ArgX, LineLo(2) + k - 1>>]
                   \o [k \in 1..(LineHi(2) - LineLo(2) + 1) |->
                          <<ArgX, LineLo(2) + k - 1>>]
        /\ \A x \in 0..(width - 1), y \in 0..(height - 1) :
               Cell(buffer, x, y) =
                   Composite(Cell(prev, x, y), op.rgba,
                             IF x = ArgX /\ LineLo(2) <= y /\ y < LineHi(2) THEN 2
                             ELSE IF x = ArgX /\ y = LineHi(2) THEN 1
                             ELSE 0)

C26_Witness ==
    /\ Vertical
    /\ height = 3
    /\ pixel_inside(ArgX, 0)
    /\ LineLo(2) = 0
    /\ LineHi(2) = 2
    /\ op.rgba.a = 128
    /\ Len(calls) = 5
    /\ Cell(buffer, ArgX, 0) # Composite(Cell(prev, ArgX, 0), op.rgba, 1)
    /\ Cell(buffer, ArgX, 2) = Composite(Cell(prev, ArgX, 2), op.rgba, 1)

\* C27: draw_line is symmetric in its endpoints: draw_line(x1, y1, x2, y2)
\* and draw_line(x2, y2, x1, y1) call draw_pixel for the same multiset of
\* coordinates and leave the same canvas, for every canvas, paint and
\* endpoints.
Reversed == draw_line(op.args[3], op.args[4], op.args[1], op.args[2])

C27_EndpointSymmetry ==
    op.name = "draw_line" =>
        /\ \A p \in Points(calls) \cup Points(Reversed) :
               Count(calls, p) = Count(Reversed, p)
        /\ buffer = draw_pixels(prev, Reversed, op.rgba)

C27_Witness ==
    /\ op.name = "draw_line"
    /\ op.args[1] > op.args[3]
    /\ op.args[2] > op.args[4] + 1
    /\ op.args[1] - op.args[3] < op.args[2] - op.args[4]
    /\ op.rgba.a = 128
    /\ Cardinality({<<x, y>> \in (0..(width - 1)) \X (0..(height - 1)) :
                        Cell(buffer, x, y) # Cell(prev, x, y)}) >= 2

\* C28: in the midpoint loop of draw_circle and draw_circle_solid, at every
\* loop head e = x_offset^2 + y_offset^2 - r^2 - r, and for r >= 1 every
\* offset pair used in an iteration satisfies
\* (r - 1)^2 < x_offset^2 + y_offset^2 < (r + 1)^2 and
\* 0 <= y_offset <= x_offset <= r.
Norm2 == loc.x_offset * loc.x_offset + loc.y_offset * loc.y_offset

C28_MidpointInvariant ==
    pc \in {"circle_loop", "solid_loop"} =>
        LET r == op.args[3]
        IN /\ loc.e = Norm2 - r * r - r
           /\ (r >= 1 /\ loc.y_offset <= loc.x_offset) =>
                  /\ (r - 1) * (r - 1) < Norm2
                  /\ Norm2 < (r + 1) * (r + 1)
                  /\ 0 <= loc.y_offset
                  /\ loc.x_offset <= r

C28_Witness ==
    /\ pc = "circle_loop"
    /\ op.args[3] = MaxStepRadius
    /\ loc.x_offset < op.args[3]
    /\ loc.y_offset >= 3
    /\ loc.y_offset <= loc.x_offset
    /\ loc.e < 0

\* C29: in draw_polygon_solid with n >= 1 vertices whose minimum-y and
\* maximum-y vertices have different indices, the right-chain walk and the
\* left-chain walk together hand each of the n ring edges
\* (v[i], v[(i + 1) mod n]) to polygon_buffer_line exactly once, every edge to
\* exactly one of the two buffers; both walks go round the ring in increasing
\* index order, and the clockwise flag only selects which chain fills
\* right_buff.
TwoChains ==
    /\ op.name = "draw_polygon_solid"
    /\ op.verts # <<>>
    /\ extreme_verts(op.verts, 0, 0, 0)[1] # extreme_verts(op.verts, 0, 0, 0)[2]

C29_EachEdgeOnce ==
    TwoChains =>
        LET pb == polygon_bounds(op.verts, op.clockwise)
            other == polygon_bounds(op.verts, ~op.clockwise)
            n == Len(op.verts)
            fed == pb.right_edges \o pb.left_edges
        IN /\ ~panicked
           /\ Len(fed) = n
           /\ \A i \in 0..(n - 1) :
                  Cardinality({k \in DOMAIN fed : fed[k][1] = i}) = 1
           /\ \A k \in DOMAIN fed :
                  LET v1 == vertex(op.verts, fed[k][1])
                      v2 == vertex(op.verts, (fed[k][1] + 1) % n)
                  IN Tail(fed[k]) = <<v1[1] - pb.start_x, v1[2] - pb.start_y,
                                      v2[1] - pb.start_x, v2[2] - pb.start_y>>
           /\ \A chain \in {pb.right_edges, pb.left_edges} :
                  \A k \in 1..(Len(chain) - 1) :
                      chain[k + 1][1] = (chain[k][1] + 1) % n
           /\ other.right_edges = pb.left_edges
           /\ other.left_edges = pb.right_edges

C29_Witness ==
    /\ TwoChains
    /\ Len(op.verts) = 4
    /\ op.clockwise
    /\ Len(polygon_bounds(op.verts, op.clockwise).right_edges) = 2
    /\ Len(polygon_bounds(op.verts, op.clockwise).left_edges) = 2
    /\ calls # <<>>

\* C30: draw_pixel(x, y, paint) changes at most the buffer cell
\* y * width + x; every other cell, the width and the height are unchanged,
\* for every canvas and every signed (x, y).  A pixel's value after the call
\* is its value before composited with the paint when the call is at the
\* pixel's coordinate and its value before otherwise, so that after a
\* sequence of calls it depends only on the paints applied at its
\* coordinate, in call order.
C30_OneCellOnly ==
    [][op'.name = "draw_pixel" =>
           /\ width' = width
           /\ height' = height
           /\ Len(buffer') = Len(buffer)
           /\ \A k \in 1..Len(buffer) :
                  k # op'.args[2] * width + op'.args[1] + 1 => buffer'[k] = buffer[k]
           /\ \A x \in 0..(width - 1), y \in 0..(height - 1) :
                  Cell(buffer', x, y) =
                      IF x = op'.args[1] /\ y = op'.args[2]
                      THEN add_rgba(Cell(buffer, x, y), op'.rgba)
                      ELSE Cell(buffer, x, y)]_vars

C30_Witness ==
    /\ op.name = "draw_pixel"
    /\ steps = MaxOps
    /\ width > 1
    /\ height > 1
    /\ pixel_inside(ArgX, ArgY)
    /\ op.rgba.a = 128
    /\ Cell(buffer, ArgX, ArgY) # Cell(prev, ArgX, ArgY)
    /\ \E x \in 0..(width - 1), y \in 0..(height - 1) :
           /\ <<x, y>> # <<ArgX, ArgY>>
           /\ Cell(prev, x, y) # Black
           /\ Cell(buffer, x, y) = Cell(prev, x, y)

====
